---- MODULE Spec2Model ----
(***************************************************************************)
(* Rob<'a, T>: a pointer plus an ownership flag, holding either a borrowed *)
(* reference or an owned Box.  The model keeps the memory cells the        *)
(* pointers refer to, the local variables of a caller (each holding a Rob, *)
(* a Box or a raw (pointer, flag) pair), and the teardown counter of the   *)
(* instrumented value type TestObj.                                        *)
(***************************************************************************)
EXTENDS Integers, FiniteSets

\* ------------------------------------------------------------------ bounds
NumSlots == 2        \* local variables a caller holds at once
MaxAddr == 2         \* values (heap allocations and stack values) created in a run
MaxVal == 2          \* TestObj payloads are 1..MaxVal

Slots == 1..NumSlots
Addrs == 1..MaxAddr
Vals == 1..MaxVal

VARIABLES heap, local, cow, DROP_COUNT, ret

vars == <<heap, local, cow, DROP_COUNT, ret>>

\* ------------------------------------------------------------- memory cells
\* A cell that never held a value.
NoCell == [kind |-> "none", live |-> FALSE, val |-> 0, drops |-> 0]

\* Box::new(value): a heap allocation holding the value.
BoxCell(v) == [kind |-> "box", live |-> TRUE, val |-> v, drops |-> 0]

\* let obj = TestObj(v): a value owned by an external scope.
ObjCell(v) == [kind |-> "ext", live |-> TRUE, val |-> v, drops |-> 0]

\* A cell whose value was torn down: once, and a second time (a double free).
Freed == [kind |-> "none", live |-> FALSE, val |-> 0, drops |-> 1]
TwiceFreed == [kind |-> "none", live |-> FALSE, val |-> 0, drops |-> 2]

\* The address a new value gets.  The code never inspects an address, so the
\* model hands them out in increasing order and lets an address stand for
\* one value: it is not handed out again after its value is released.
\* The set is empty when the run has created MaxAddr values.
FreeAddrs(h) ==
    LET F == {a \in Addrs : h[a] = NoCell}
    IN  {a \in F : \A b \in F : a <= b}

\* Running the teardown of the value at address a (TestObj::drop and the
\* release of its storage).
Release(h, a) == [h EXCEPT ![a] = IF @.live THEN Freed ELSE TwiceFreed]

\* ------------------------------------------------------- local variables
\* An unused local variable; ptr is NonNull, so 0 is no pointer.
Empty == [kind |-> "none", ptr |-> 0, is_owned |-> FALSE]

\* The struct: ptr and is_owned.
RobOf(p, f) == [kind |-> "rob", ptr |-> p, is_owned |-> f]

\* A Box<T> held by the caller.
BoxOf(p) == [kind |-> "box", ptr |-> p, is_owned |-> TRUE]

\* A (*mut T, bool) pair held by the caller.
RawOf(p, f) == [kind |-> "raw", ptr |-> p, is_owned |-> f]

IsRob(i) == local[i].kind = "rob"
IsBox(i) == local[i].kind = "box"
IsRaw(i) == local[i].kind = "raw"
IsEmpty(i) == local[i].kind = "none"

\* let x = ...: a new value is bound to the caller's first unused variable
\* (which variable it is makes no difference to the code).
FirstEmpty(j) == IsEmpty(j) /\ \A k \in Slots : IsEmpty(k) => j <= k

\* The value of the last call: its name, the variable it was called on and
\* what it returned (pointer, flag, payload).
Ret(op, i, p, f, v) == [op |-> op, slot |-> i, ptr |-> p, flag |-> f, val |-> v]

\* Deref::deref: the value behind the pointer, whatever the flag.
deref(h, r) == h[r.ptr].val

\* Rob::from_ref
from_ref_rob(a) == RobOf(a, FALSE)

\* Rob::from_box
from_box_rob(a) == RobOf(a, TRUE)

\* Mutant of from_raw_rob: the flag of the pair is dropped.
from_raw_borrowed(p, f) == RobOf(p, FALSE)

\* Rob::from_raw
from_raw_rob(p, f) == RobOf(p, f)

\* Mutant of as_ref_of: a reference is returned for an owned container too.
as_ref_any(r) == r.ptr

\* Rob::as_ref: Some(address) when not owned, None (0) when owned.
as_ref_of(r) == IF ~r.is_owned THEN r.ptr ELSE 0

\* Rob::is_owned
is_owned_of(r) == r.is_owned

\* Mutant of drop_heap: the destructor forgets to test the flag.
drop_heap_any(h, r) == Release(h, r.ptr)

\* impl Drop for Rob: release the allocation iff the flag is set.
drop_heap(h, r) == IF r.is_owned THEN Release(h, r.ptr) ELSE h

\* TestObj::drop runs once per released value.
drop_count(n, r) == IF r.is_owned THEN n + 1 ELSE n

Init ==
    /\ heap = [a \in Addrs |-> NoCell]
    /\ local = [i \in Slots |-> Empty]
    /\ cow = {}
    /\ DROP_COUNT = 0
    /\ ret = Ret("init", 0, 0, FALSE, 0)

\* ------------------------------------------------------ the caller's values
\* let obj = TestObj(v);
new_obj(v) ==
    \E a \in FreeAddrs(heap) :
        /\ heap' = [heap EXCEPT ![a] = ObjCell(v)]
        /\ ret' = Ret("new_obj", 0, a, FALSE, v)
        /\ UNCHANGED <<local, cow, DROP_COUNT>>

\* std::mem::drop(obj): the borrow checker allows it only when no container
\* (or raw pair kept for from_raw) still borrows obj.
drop_obj(a) ==
    /\ heap[a].live /\ heap[a].kind = "ext"
    /\ \A i \in Slots : ~(~IsEmpty(i) /\ ~local[i].is_owned /\ local[i].ptr = a)
    /\ heap' = Release(heap, a)
    /\ DROP_COUNT' = DROP_COUNT + 1
    /\ ret' = Ret("drop_obj", 0, a, FALSE, 0)
    /\ UNCHANGED <<local, cow>>

\* let b = Box::new(TestObj(v));
box_new(j, v) ==
    /\ FirstEmpty(j)
    /\ \E a \in FreeAddrs(heap) :
        /\ heap' = [heap EXCEPT ![a] = BoxCell(v)]
        /\ local' = [local EXCEPT ![j] = BoxOf(a)]
        /\ ret' = Ret("box_new", j, a, TRUE, v)
    /\ UNCHANGED <<cow, DROP_COUNT>>

\* std::mem::drop(b) for a Box the caller holds.
drop_box(i) ==
    /\ IsBox(i)
    /\ heap' = Release(heap, local[i].ptr)
    /\ local' = [local EXCEPT ![i] = Empty]
    /\ DROP_COUNT' = DROP_COUNT + 1
    /\ ret' = Ret("drop_box", i, local[i].ptr, TRUE, 0)
    /\ UNCHANGED cow

\* ------------------------------------------------------------ constructors
\* Rob::from_value: from_box(Box::new(value))
from_value(j, v) ==
    /\ FirstEmpty(j)
    /\ \E a \in FreeAddrs(heap) :
        /\ heap' = [heap EXCEPT ![a] = BoxCell(v)]
        /\ local' = [local EXCEPT ![j] = from_box_rob(a)]
        /\ ret' = Ret("from_value", j, a, TRUE, v)
    /\ UNCHANGED <<cow, DROP_COUNT>>

\* Rob::from_ref(&obj)
from_ref(j, a) ==
    /\ FirstEmpty(j)
    /\ heap[a].live /\ heap[a].kind = "ext"
    /\ local' = [local EXCEPT ![j] = from_ref_rob(a)]
    /\ ret' = Ret("from_ref", j, a, FALSE, heap[a].val)
    /\ UNCHANGED <<heap, cow, DROP_COUNT>>

\* Rob::from_box(b): the Box in variable i becomes a container.
from_box(i) ==
    /\ IsBox(i)
    /\ local' = [local EXCEPT ![i] = from_box_rob(local[i].ptr)]
    /\ ret' = Ret("from_box", i, local[i].ptr, TRUE, heap[local[i].ptr].val)
    /\ UNCHANGED <<heap, cow, DROP_COUNT>>

\* Rob::from_raw on the pair into_raw returned.
from_raw(i) ==
    /\ IsRaw(i)
    /\ local' = [local EXCEPT ![i] = from_raw_rob(local[i].ptr, local[i].is_owned)]
    /\ ret' = Ret("from_raw", i, local[i].ptr, local[i].is_owned,
                  heap[local[i].ptr].val)
    /\ UNCHANGED <<heap, cow, DROP_COUNT>>

\* ------------------------------------------------------------- destruction
\* std::mem::drop(x) / scope exit of a container.
drop(i) ==
    /\ IsRob(i)
    /\ heap' = drop_heap(heap, local[i])
    /\ DROP_COUNT' = drop_count(DROP_COUNT, local[i])
    /\ local' = [local EXCEPT ![i] = Empty]
    /\ cow' = cow \ {i}
    /\ ret' = Ret("drop", i, local[i].ptr, local[i].is_owned, 0)

\* ------------------------------------------------------------- consumption
\* Mutant of into_raw: the mem::forget is missing, so the destructor runs.
into_raw_drop(i) ==
    /\ IsRob(i)
    /\ local' = [local EXCEPT ![i] = RawOf(local[i].ptr, local[i].is_owned)]
    /\ cow' = cow \ {i}
    /\ heap' = drop_heap(heap, local[i])
    /\ DROP_COUNT' = drop_count(DROP_COUNT, local[i])
    /\ ret' = Ret("into_raw", i, local[i].ptr, local[i].is_owned, 0)

\* Rob::into_raw: forget the container, hand the pair to the caller.
into_raw(i) ==
    /\ IsRob(i)
    /\ local' = [local EXCEPT ![i] = RawOf(local[i].ptr, local[i].is_owned)]
    /\ cow' = cow \ {i}
    /\ ret' = Ret("into_raw", i, local[i].ptr, local[i].is_owned, 0)
    /\ UNCHANGED <<heap, DROP_COUNT>>

\* Mutant of into_box: the mem::forget is missing, so the destructor of the
\* consumed container runs on the allocation the Box now holds.
into_box_noforget(i) ==
    /\ IsRob(i)
    /\ IF local[i].is_owned
       THEN /\ local' = [local EXCEPT ![i] = BoxOf(local[i].ptr)]
            /\ heap' = drop_heap(heap, local[i])
            /\ DROP_COUNT' = drop_count(DROP_COUNT, local[i])
            /\ ret' = Ret("into_box", i, local[i].ptr, TRUE, deref(heap, local[i]))
       ELSE \E a \in FreeAddrs(heap) :
            /\ local' = [local EXCEPT ![i] = BoxOf(a)]
            /\ heap' = drop_heap([heap EXCEPT ![a] = BoxCell(deref(heap, local[i]))],
                                 local[i])
            /\ DROP_COUNT' = drop_count(DROP_COUNT, local[i])
            /\ ret' = Ret("into_box", i, a, FALSE, deref(heap, local[i]))
    /\ cow' = cow \ {i}

\* Mutant of into_box: the flag is not tested, the Box is rebuilt from the
\* pointer of a borrowed container too.
into_box_noclone(i) ==
    /\ IsRob(i)
    /\ local' = [local EXCEPT ![i] = BoxOf(local[i].ptr)]
    /\ heap' = heap
    /\ DROP_COUNT' = DROP_COUNT
    /\ ret' = Ret("into_box", i, local[i].ptr, local[i].is_owned,
                  deref(heap, local[i]))
    /\ cow' = cow \ {i}

\* Rob::into_box: owned: forget the container and rebuild the Box from its
\* pointer; borrowed: box a clone of the referent, then the (borrowed)
\* container goes out of scope.
into_box(i) ==
    /\ IsRob(i)
    /\ IF local[i].is_owned
       THEN /\ local' = [local EXCEPT ![i] = BoxOf(local[i].ptr)]
            /\ heap' = heap
            /\ DROP_COUNT' = DROP_COUNT
            /\ ret' = Ret("into_box", i, local[i].ptr, TRUE, deref(heap, local[i]))
       ELSE \E a \in FreeAddrs(heap) :
            /\ local' = [local EXCEPT ![i] = BoxOf(a)]
            /\ heap' = drop_heap([heap EXCEPT ![a] = BoxCell(deref(heap, local[i]))],
                                 local[i])
            /\ DROP_COUNT' = drop_count(DROP_COUNT, local[i])
            /\ ret' = Ret("into_box", i, a, FALSE, deref(heap, local[i]))
    /\ cow' = cow \ {i}

\* ------------------------------------------------------------------ access
\* Rob::as_ref
as_ref(i) ==
    /\ IsRob(i)
    /\ ret' = Ret("as_ref", i, as_ref_of(local[i]), FALSE, 0)
    /\ UNCHANGED <<heap, local, cow, DROP_COUNT>>

\* Rob::is_owned
is_owned(i) ==
    /\ IsRob(i)
    /\ ret' = Ret("is_owned", i, 0, is_owned_of(local[i]), 0)
    /\ UNCHANGED <<heap, local, cow, DROP_COUNT>>

\* *x (Deref, Borrow, AsRef<T>): read the value.
read(i) ==
    /\ IsRob(i)
    /\ ret' = Ret("deref", i, 0, FALSE, deref(heap, local[i]))
    /\ UNCHANGED <<heap, local, cow, DROP_COUNT>>

\* PartialEq::eq: forwards to the values.
eq(i, j) ==
    /\ IsRob(i) /\ IsRob(j)
    /\ ret' = Ret("eq", i, 0, deref(heap, local[i]) = deref(heap, local[j]), 0)
    /\ UNCHANGED <<heap, local, cow, DROP_COUNT>>

\* PartialOrd::lt: forwards to the values.
lt(i, j) ==
    /\ IsRob(i) /\ IsRob(j)
    /\ ret' = Ret("lt", i, 0, deref(heap, local[i]) < deref(heap, local[j]), 0)
    /\ UNCHANGED <<heap, local, cow, DROP_COUNT>>

\* Hash::hash: feeds the value (and nothing else) to the hasher.
hash(i) ==
    /\ IsRob(i)
    /\ ret' = Ret("hash", i, 0, FALSE, deref(heap, local[i]))
    /\ UNCHANGED <<heap, local, cow, DROP_COUNT>>

\* --------------------------------------------------------- copy on write
\* Mutant of to_mut: the flag is set but the referent is not cloned.
to_mut_noclone(i) ==
    /\ IsRob(i)
    /\ local' = [local EXCEPT ![i] = RobOf(local[i].ptr, TRUE)]
    /\ cow' = IF local[i].is_owned THEN cow ELSE cow \cup {i}
    /\ ret' = Ret("to_mut", i, local[i].ptr, FALSE, 0)
    /\ UNCHANGED <<heap, DROP_COUNT>>

\* Mutant of to_mut: the pointer is handed out as it is, with no upgrade.
to_mut_noupgrade(i) ==
    /\ IsRob(i)
    /\ ret' = Ret("to_mut", i, local[i].ptr, FALSE, 0)
    /\ UNCHANGED <<heap, local, cow, DROP_COUNT>>

\* Mutant of to_mut: the flag is not tested, every call clones.
to_mut_reclone(i) ==
    /\ IsRob(i)
    /\ \E a \in FreeAddrs(heap) :
        /\ heap' = [heap EXCEPT ![a] = BoxCell(deref(heap, local[i]))]
        /\ local' = [local EXCEPT ![i] = RobOf(a, TRUE)]
    /\ cow' = IF local[i].is_owned THEN cow ELSE cow \cup {i}
    /\ ret' = Ret("to_mut", i, local'[i].ptr, FALSE, 0)
    /\ UNCHANGED DROP_COUNT

\* Rob::to_mut: a borrowed container is repointed at a Box holding a clone
\* of the referent and flagged owned; the pointer is then handed out.
to_mut(i) ==
    /\ IsRob(i)
    /\ IF ~local[i].is_owned
       THEN \E a \in FreeAddrs(heap) :
            /\ heap' = [heap EXCEPT ![a] = BoxCell(deref(heap, local[i]))]
            /\ local' = [local EXCEPT ![i] = RobOf(a, TRUE)]
            /\ cow' = cow \cup {i}
       ELSE UNCHANGED <<heap, local, cow>>
    /\ ret' = Ret("to_mut", i, local'[i].ptr, FALSE, 0)
    /\ UNCHANGED DROP_COUNT

\* Rob::to_mut(&mut x).0 = v: a write through the reference to_mut returned,
\* which the borrow checker allows until the container is used again.
write(v) ==
    /\ ret.op \in {"to_mut", "write"}
    /\ heap' = [heap EXCEPT ![ret.ptr].val = v]
    /\ ret' = Ret("write", ret.slot, ret.ptr, FALSE, v)
    /\ UNCHANGED <<local, cow, DROP_COUNT>>

\* ------------------------------------------------------------------ Clone
\* Mutant of clone: a field-by-field copy of the struct.
clone_shallow(i, j) ==
    /\ IsRob(i) /\ FirstEmpty(j)
    /\ local' = [local EXCEPT ![j] = local[i]]
    /\ ret' = Ret("clone", j, local[i].ptr, local[i].is_owned, deref(heap, local[i]))
    /\ UNCHANGED <<heap, cow, DROP_COUNT>>

\* impl Clone for Rob: owned: from_value of a clone of the value; borrowed:
\* from_ref of the same referent.
clone(i, j) ==
    /\ IsRob(i) /\ FirstEmpty(j)
    /\ IF local[i].is_owned
       THEN \E a \in FreeAddrs(heap) :
            /\ heap' = [heap EXCEPT ![a] = BoxCell(deref(heap, local[i]))]
            /\ local' = [local EXCEPT ![j] = from_box_rob(a)]
       ELSE /\ heap' = heap
            /\ local' = [local EXCEPT ![j] = from_ref_rob(local[i].ptr)]
    /\ ret' = Ret("clone", j, local'[j].ptr, local'[j].is_owned, deref(heap, local[i]))
    /\ UNCHANGED <<cow, DROP_COUNT>>

Next ==
    \/ \E v \in Vals : new_obj(v)
    \/ \E a \in Addrs : drop_obj(a)
    \/ \E j \in Slots, v \in Vals : box_new(j, v)
    \/ \E i \in Slots : drop_box(i)
    \/ \E j \in Slots, v \in Vals : from_value(j, v)
    \/ \E j \in Slots, a \in Addrs : from_ref(j, a)
    \/ \E i \in Slots : from_box(i)
    \/ \E i \in Slots : from_raw(i)
    \/ \E i \in Slots : drop(i)
    \/ \E i \in Slots : into_raw(i)
    \/ \E i \in Slots : into_box(i)
    \/ \E i \in Slots : as_ref(i)
    \/ \E i \in Slots : is_owned(i)
    \/ \E i \in Slots : read(i)
    \/ \E i, j \in Slots : i # j /\ eq(i, j)
    \/ \E i, j \in Slots : i # j /\ lt(i, j)
    \/ \E i \in Slots : hash(i)
    \/ \E i \in Slots : to_mut(i)
    \/ \E v \in Vals : write(v)
    \/ \E i, j \in Slots : clone(i, j)

Spec == Init /\ [][Next]_vars

\* ================================================================ properties
\* Cells other than those in S are the same in h1 and h2.
SameExcept(h1, h2, S) == \A a \in Addrs \ S : h1[a] = h2[a]

\* The addresses that have been given to a value so far.
Used(h) == {a \in Addrs : h[a] # NoCell}

\* The step tears down exactly the live value at address a.
ReleasesOnly(a) ==
    /\ heap[a].live
    /\ heap'[a] = Freed
    /\ SameExcept(heap, heap', {a})
    /\ DROP_COUNT' = DROP_COUNT + 1

\* The step allocates exactly one Box, at the address now in local variable
\* j, holding value v; every other cell is left alone and nothing is torn down.
AllocatesBoxFor(j, v) ==
    /\ heap[local'[j].ptr] = NoCell
    /\ heap'[local'[j].ptr] = BoxCell(v)
    /\ SameExcept(heap, heap', {local'[j].ptr})
    /\ DROP_COUNT' = DROP_COUNT

\* C1: dropping a Rob runs the teardown of the value it points to exactly
\* once when its flag is set (count + 1, that cell and no other released),
\* and not at all when the flag is clear (count and memory unchanged); the
\* value a borrowed Rob pointed to is torn down only by the drop of the
\* external value itself, which then counts once.
C1_DropReleasesIffOwned ==
    [][ /\ \A i \in Slots : drop(i) =>
             IF local[i].is_owned
             THEN ReleasesOnly(local[i].ptr)
             ELSE /\ heap' = heap
                  /\ DROP_COUNT' = DROP_COUNT
                  /\ heap[local[i].ptr].live
        /\ \A a \in Addrs :
             (heap[a].kind = "ext" /\ heap[a].live /\ ~heap'[a].live)
                => drop_obj(a) /\ ReleasesOnly(a) ]_vars

C1_Witness ==
    /\ ret.op = "drop" /\ ret.flag
    /\ heap[ret.ptr] = Freed
    /\ DROP_COUNT = 1

\* C2: into_box on an owned Rob returns the allocation the container held:
\* no cell is allocated, copied or released by the call and the teardown
\* count does not move; the later drop of that Box tears the (still live)
\* value down once.
C2_OwnedIntoBoxTransfers ==
    [][ \A i \in Slots :
          /\ (into_box(i) /\ local[i].is_owned) =>
                /\ local'[i] = BoxOf(local[i].ptr)
                /\ heap[local[i].ptr].live
                /\ heap' = heap
                /\ DROP_COUNT' = DROP_COUNT
          /\ drop_box(i) => ReleasesOnly(local[i].ptr) ]_vars

C2_Witness ==
    /\ ret.op = "into_box" /\ ret.flag
    /\ IsBox(ret.slot) /\ local[ret.slot].ptr = ret.ptr
    /\ heap[ret.ptr].live
    /\ DROP_COUNT = 0

\* C3: into_box on a borrowed Rob returns a new allocation (an address that
\* held nothing, different from the referent's) holding an equal value; the
\* referent stays live and untouched and the count does not move.  Dropping
\* the Box and dropping the external value each count once.
C3_BorrowedIntoBoxClones ==
    [][ /\ \A i \in Slots :
             (into_box(i) /\ ~local[i].is_owned) =>
                /\ local'[i].kind = "box"
                /\ local'[i].ptr # local[i].ptr
                /\ heap[local[i].ptr].live
                /\ AllocatesBoxFor(i, heap[local[i].ptr].val)
        /\ \A i \in Slots : drop_box(i) => ReleasesOnly(local[i].ptr)
        /\ \A a \in Addrs : drop_obj(a) => ReleasesOnly(a) ]_vars

C3_Witness ==
    /\ ret.op = "into_box" /\ ~ret.flag
    /\ IsBox(ret.slot) /\ local[ret.slot].ptr = ret.ptr
    /\ \E a \in Addrs \ {ret.ptr} :
          heap[a].kind = "ext" /\ heap[a].live /\ heap[a].val = heap[ret.ptr].val

\* C4: to_mut on a borrowed Rob leaves it owned, pointing at a fresh Box that
\* holds a clone of the referent; the call releases nothing and leaves the
\* referent untouched, and the drop of a container never touches a value of
\* an external scope once the container was upgraded.
C4_ToMutUpgrades ==
    [][ \A i \in Slots :
          /\ (to_mut(i) /\ ~local[i].is_owned) =>
                /\ local'[i].kind = "rob" /\ local'[i].is_owned
                /\ local'[i].ptr # local[i].ptr
                /\ heap[local[i].ptr].live
                /\ AllocatesBoxFor(i, heap[local[i].ptr].val)
          /\ (drop(i) /\ i \in cow) =>
                /\ heap[local[i].ptr].kind = "box"
                /\ ReleasesOnly(local[i].ptr) ]_vars

C4_Witness ==
    /\ ret.op = "to_mut" /\ ret.slot \in cow
    /\ local[ret.slot] = RobOf(ret.ptr, TRUE)
    /\ \E a \in Addrs \ {ret.ptr} :
          heap[a].kind = "ext" /\ heap[a].live /\ heap[a].val = heap[ret.ptr].val

\* C5: in every reachable state as_ref of a container is present, and is the
\* address of the external value, exactly when the container points at a
\* value of an external scope; it is absent when the container points at a
\* Box, in particular after to_mut upgraded it; and the last as_ref call
\* returned just that.
C5_AsRefIffBorrowed ==
    /\ \A i \in Slots : IsRob(i) =>
          /\ as_ref_of(local[i]) =
                (IF heap[local[i].ptr].kind = "ext" THEN local[i].ptr ELSE 0)
          /\ (as_ref_of(local[i]) # 0) <=> ~is_owned_of(local[i])
          /\ i \in cow => as_ref_of(local[i]) = 0
    /\ ret.op = "as_ref" => ret.ptr = as_ref_of(local[ret.slot])

C5_Witness ==
    /\ ret.op = "as_ref" /\ ret.ptr = 0
    /\ ret.slot \in cow
    /\ \E j \in Slots : IsRob(j) /\ as_ref_of(local[j]) # 0

\* C6: into_raw hands out the container's (pointer, flag) pair and touches
\* neither memory nor the count; while the pair is held the value it points
\* to is not touched; from_raw on the pair yields a container with the same
\* pointer and flag over the same live value, so its drop releases once.
C6_RawRoundTrip ==
    [][ \A i \in Slots :
          /\ into_raw(i) =>
                /\ local'[i] = RawOf(local[i].ptr, local[i].is_owned)
                /\ heap' = heap
                /\ DROP_COUNT' = DROP_COUNT
          /\ (IsRaw(i) /\ local'[i].kind = "raw") =>
                /\ local'[i] = local[i]
                /\ heap'[local[i].ptr] = heap[local[i].ptr]
          /\ from_raw(i) =>
                /\ local'[i] = RobOf(local[i].ptr, local[i].is_owned)
                /\ heap[local[i].ptr].live
                /\ local[i].is_owned <=> heap[local[i].ptr].kind = "box"
                /\ heap' = heap
                /\ DROP_COUNT' = DROP_COUNT
          /\ (drop(i) /\ local[i].is_owned) => ReleasesOnly(local[i].ptr) ]_vars

C6_Witness ==
    /\ ret.op = "from_raw" /\ ret.flag
    /\ local[ret.slot] = RobOf(ret.ptr, TRUE)
    /\ heap[ret.ptr].live /\ heap[ret.ptr].val = ret.val
    /\ DROP_COUNT = 0

\* C7: clone of an owned Rob is an owned Rob on a new Box (an address that
\* held nothing) with an equal value; clone of a borrowed Rob is a borrowed
\* Rob with the same address, and memory is not touched.  The original is
\* unchanged either way.
C7_Clone ==
    [][ \A i, j \in Slots : clone(i, j) =>
          /\ local'[i] = local[i]
          /\ IF local[i].is_owned
             THEN /\ local'[j].kind = "rob" /\ local'[j].is_owned
                  /\ local'[j].ptr # local[i].ptr
                  /\ AllocatesBoxFor(j, heap[local[i].ptr].val)
             ELSE /\ local'[j] = RobOf(local[i].ptr, FALSE)
                  /\ heap' = heap
                  /\ DROP_COUNT' = DROP_COUNT ]_vars

C7_Witness ==
    /\ ret.op = "clone" /\ ret.flag
    /\ \E i \in Slots \ {ret.slot} :
          /\ IsRob(i) /\ local[i].is_owned
          /\ local[i].ptr # local[ret.slot].ptr
          /\ deref(heap, local[i]) = deref(heap, local[ret.slot])

\* C8: every owner (an owned container, a Box, or an owned raw pair on its
\* way to from_raw) points at a live heap allocation no other owner points
\* at; every container points at a live value; no value was torn down twice.
C8_ExclusiveOwnership ==
    /\ \A i \in Slots : (~IsEmpty(i) /\ local[i].is_owned) =>
          /\ heap[local[i].ptr].live
          /\ heap[local[i].ptr].kind = "box"
          /\ \A j \in Slots \ {i} :
                ~(~IsEmpty(j) /\ local[j].is_owned /\ local[j].ptr = local[i].ptr)
    /\ \A i \in Slots : IsRob(i) => heap[local[i].ptr].live
    /\ \A a \in Addrs : heap[a].drops <= 1

C8_Witness ==
    /\ ret.op = "from_raw" /\ ret.flag
    /\ \E j \in Slots \ {ret.slot} : IsRob(j) /\ local[j].is_owned
    /\ IsRob(ret.slot)

\* Every call leaves its name and the variable it was called on in ret, so
\* the call a step makes is read off ret'.
Calls(op, i) == ret'.op = op /\ ret'.slot = i

\* The read-only calls: is_owned, as_ref, a read through deref, hash, and
\* the comparisons.
ReadOps == {"is_owned", "as_ref", "deref", "hash", "eq", "lt"}

\* A container's (pointer, flag) pair changes only in to_mut on a borrowed
\* container, and then to owned.
PairChangesOnlyInUpgrade(i) ==
    (IsRob(i) /\ local'[i].kind = "rob" /\ local'[i] # local[i]) =>
        /\ Calls("to_mut", i)
        /\ ~local[i].is_owned /\ local'[i].is_owned

\* C9 as stated: the pair changes only in to_mut on a borrowed container;
\* is_owned, as_ref, deref, clone, the comparisons, hashing, and to_mut on an
\* owned container leave the pair unchanged and allocate nothing.
C9_Original ==
    [][ /\ \A i \in Slots : PairChangesOnlyInUpgrade(i)
        /\ (\/ ret'.op \in ReadOps
            \/ ret'.op = "clone"
            \/ ret'.op = "to_mut" /\ local[ret'.slot].is_owned) =>
              /\ \A i \in Slots : IsRob(i) => local'[i] = local[i]
              /\ Used(heap') = Used(heap) ]_vars

\* C9 amended: as stated, except that clone of an owned container does
\* allocate (exactly the Box of the new container).
C9_PairFrame ==
    [][ /\ \A i \in Slots : PairChangesOnlyInUpgrade(i)
        /\ (\/ ret'.op \in ReadOps
            \/ ret'.op = "to_mut" /\ local[ret'.slot].is_owned) =>
              /\ local' = local
              /\ heap' = heap
        /\ ret'.op = "clone" =>
              /\ \A i \in Slots : IsRob(i) => local'[i] = local[i]
              /\ IF local'[ret'.slot].is_owned
                 THEN /\ heap[local'[ret'.slot].ptr] = NoCell
                      /\ Used(heap') = Used(heap) \cup {local'[ret'.slot].ptr}
                 ELSE Used(heap') = Used(heap) ]_vars

C9_Witness ==
    /\ ret.op = "to_mut"
    /\ ret.slot \notin cow
    /\ local[ret.slot] = RobOf(ret.ptr, TRUE)
    /\ Used(heap) # Addrs

\* C10: a write through the reference to_mut returned lands in the Box of
\* the container to_mut was called on, which no other local variable points
\* at; every other cell (the external values included) keeps its value, so
\* every other container reads what it read before.
C10_WriteIsolation ==
    [][ \A v \in Vals : write(v) =>
          /\ local[ret.slot] = RobOf(ret.ptr, TRUE)
          /\ heap[ret.ptr].kind = "box" /\ heap[ret.ptr].live
          /\ deref(heap', local'[ret.slot]) = v
          /\ SameExcept(heap, heap', {ret.ptr})
          /\ local' = local
          /\ \A j \in Slots \ {ret.slot} :
                IsRob(j) => /\ local[j].ptr # ret.ptr
                            /\ deref(heap', local'[j]) = deref(heap, local[j]) ]_vars

C10_Witness ==
    /\ ret.op = "write" /\ ret.slot \in cow
    /\ \E j \in Slots \ {ret.slot} :
          /\ IsRob(j) /\ ~local[j].is_owned
          /\ heap[local[j].ptr].kind = "ext"
          /\ deref(heap, local[j]) # ret.val

====
